---------------------------- MODULE Spec2Model ----------------------------
(***************************************************************************)
(* Model of the rule-based lint engine of vscode-obdb:                     *)
(*   - BaseLinter (src/src/linter/baseLinter.ts): the four dispatch        *)
(*     operations lintSignal, lintCommand, lintCommands, lintDocument;     *)
(*   - the CLI lint pass (src/src/cli.ts, lintCommand) that walks a parsed *)
(*     document and calls the engine;                                      *)
(*   - SuggestedMetricSuggestionRule                                       *)
(*     (src/src/linter/rules/suggestedMetricSuggestionRule.ts).            *)
(*                                                                         *)
(* Spec      : one CLI lint pass over a parsed document, optionally        *)
(*             followed by a second pass over the same document.           *)
(* SpecRule  : the suggestion rule applied to one signal, the edit applied *)
(*             to the source, and the rewritten signal linted again.       *)
(* SpecEditor: a SignalLinter (src/unnamed/part_001) used by the editor:   *)
(*             its operations called in any order, with the conversion of  *)
(*             results to diagnostics (src/src/linter/vscodeAdapter.ts).   *)
(***************************************************************************)
EXTENDS Integers, Sequences, FiniteSets, TLC

VARIABLES
  \* ---- the CLI lint pass (Spec) ----
  cfg,         \* registry configuration: rule index -> enabled flag
  linter,      \* the class behind `new CliSignalLinter()`: "derived" (extends
               \* BaseLinter) or "standalone" (linterCli.ts)
  doc,         \* the parsed document (shape of the tree)
  second,      \* FALSE in the first pass, TRUE in the second
  pc,          \* position of the pass in cli.ts lintCommand
  ci,          \* index of the command being linted
  si,          \* index of the signal being linted
  allResults,  \* cli.ts `allResults`
  calls,       \* log of the engine calls made by the pass, with their returns
  out,         \* what the pass printed on stdout
  exitCode,    \* process exit code (-1 while running)
  prev,        \* the finished first pass, kept for comparison
  \* ---- the suggestion rule (SpecRule) ----
  table,       \* METRIC_PATTERNS
  source,      \* the text buffer holding the signal, as a sequence of tokens
  offset,      \* offset of the signal node in the buffer
  rpc,         \* position: "lint", "edit", "relint", "end"
  result,      \* what validateSignal returned on the last lint
  first,       \* what validateSignal returned on the original signal
  \* ---- the editor's SignalLinter (SpecEditor) ----
  lastResults, \* SignalLinter.lastResults
  last,        \* the most recent call on the SignalLinter and its outcome
  given        \* the argument of the most recent toDiagnostics or
               \* setLastResults call (the empty list before any)

passVars == <<cfg, linter, doc, second, pc, ci, si, allResults, calls, out, exitCode, prev>>
ruleVars == <<table, source, offset, rpc, result, first>>
editorVars == <<lastResults, last, given>>
vars == <<cfg, linter, doc, second, pc, ci, si, allResults, calls, out, exitCode, prev,
          table, source, offset, rpc, result, first, lastResults, last, given>>

\* Variables of the editor's linter, idle while a pass or the rule runs.
NoCall == [op |-> "none", arg |-> <<>>, threw |-> FALSE, ret |-> <<>>]
EditorIdle == lastResults = <<>> /\ last = NoCall /\ given = <<>>

---------------------------------------------------------------------------
(* Bounds *)

MaxRules == 5
MaxCommands == 2
MaxSignals == 1
MaxPatterns == 2
MaxResults == 2

---------------------------------------------------------------------------
(* Sequence helpers *)

RECURSIVE Flatten(_)
Flatten(ss) == IF ss = <<>> THEN <<>> ELSE Head(ss) \o Flatten(Tail(ss))

IsPrefix(s, t) == Len(s) <= Len(t) /\ SubSeq(t, 1, Len(s)) = s

---------------------------------------------------------------------------
(* Rules.  A rule is a stateless object with up to four optional entry     *)
(* points.  What an entry point does is an input of the engine: per entry  *)
(* point a rule either lacks it ("absent") or, called on a node, returns   *)
(* null ("null"), one result ("one"), an empty array ("none"), an array of *)
(* two results ("many"), an array with one result per child of the node    *)
(* ("each"), or throws ("throw").  validateCommands and validateDocument   *)
(* are typed LintResult[] | null, so they never return a single result.    *)
(* severity is the rule's getConfig().severity: a LintSeverity, or a value *)
(* outside the enumeration ("Verbose").  message is the text of the rule's *)
(* results.                                                                *)

EntryPoints == {"validateSignal", "validateCommand", "validateCommands", "validateDocument"}

RuleCatalogue ==
  << [id |-> "r1", severity |-> "Error", message |-> "m1",
      validateSignal |-> "one",    validateCommand |-> "absent",
      validateCommands |-> "absent", validateDocument |-> "absent"],
     [id |-> "r2Error", severity |-> "Warning", message |-> "m2",
      validateSignal |-> "many",   validateCommand |-> "one",
      validateCommands |-> "each",   validateDocument |-> "null"],
     [id |-> "r3Warning", severity |-> "Information", message |-> "m3",
      validateSignal |-> "null",   validateCommand |-> "each",
      validateCommands |-> "many",   validateDocument |-> "many"],
     [id |-> "r4", severity |-> "Hint", message |-> "m4",
      validateSignal |-> "throw",  validateCommand |-> "none",
      validateCommands |-> "absent", validateDocument |-> "none"],
     [id |-> "r5", severity |-> "Verbose", message |-> "error after warning",
      validateSignal |-> "absent", validateCommand |-> "throw",
      validateCommands |-> "null",   validateDocument |-> "many"],
     [id |-> "r6", severity |-> "Error", message |-> "an error",
      validateSignal |-> "none",   validateCommand |-> "absent",
      validateCommands |-> "throw",  validateDocument |-> "null"] >>

\* The registered rules, in registration order.
Registry == [i \in 1..MaxRules |-> RuleCatalogue[i]]

\* RuleRegistry.getEnabledRules(): the registered rules whose configuration
\* marks them enabled, in registration order.
RECURSIVE EnabledFrom(_, _)
EnabledFrom(c, i) ==
  IF i > MaxRules THEN <<>>
  ELSE (IF c[i] THEN <<Registry[i]>> ELSE <<>>) \o EnabledFrom(c, i + 1)

getEnabledRules(c) == EnabledFrom(c, 1)

\* `if (rule.validateX)`: the rule implements the entry point.
HasEntry(rule, entry) == rule[entry] # "absent"

\* A tree node: the root, the commands array, command c, signal s of command c.
RootNode == [kind |-> "root", c |-> 0, s |-> 0]
CommandsNode == [kind |-> "commands", c |-> 0, s |-> 0]
CommandNode(c) == [kind |-> "command", c |-> c, s |-> 0]
SignalNode(c, s) == [kind |-> "signal", c |-> c, s |-> s]

MkResult(rule, node, n) ==
  [ruleId |-> rule.id, message |-> rule.message, node |-> node, n |-> n]

\* rule.validateX(...): the value the call produces.  arg.node is the node
\* handed in, arg.children the number of children the rule can iterate
\* (commands of the commands node, signals of a command).
Invoke(rule, entry, arg) ==
  LET k == rule[entry] IN
  CASE k = "null"  -> [tag |-> "null"]
    [] k = "one"   -> [tag |-> "single", r |-> MkResult(rule, arg.node, 1)]
    [] k = "none"  -> [tag |-> "array", rs |-> <<>>]
    [] k = "many"  -> [tag |-> "array",
                       rs |-> <<MkResult(rule, arg.node, 1), MkResult(rule, arg.node, 2)>>]
    [] k = "each"  -> [tag |-> "array",
                       rs |-> [j \in 1..arg.children |-> MkResult(rule, arg.node, j)]]
    [] OTHER       -> [tag |-> "throw"]


---------------------------------------------------------------------------
(* BaseLinter: the four dispatch operations.                               *)

\* Faulty variant: the list is a field of the linter that is never cleared, so a
\* call starts from what the previous pass left.
NewResultsRetained == prev.results

\* `const results: LintResult[] = []`: every call starts from a fresh list.
NewResults == <<>>

\* Faulty variant: `results.push(ruleResult[0])`, only the first element of an array.
PushFirstOnly(results, ruleResult) ==
  CASE ruleResult.tag = "null"   -> results
    [] ruleResult.tag = "array"  ->
         IF ruleResult.rs = <<>> THEN results ELSE Append(results, ruleResult.rs[1])
    [] ruleResult.tag = "single" -> Append(results, ruleResult.r)

\* lintSignal / lintCommand, `if (ruleResult) { if (Array.isArray(ruleResult))
\* results.push(...ruleResult) else results.push(ruleResult) }`.
\* An empty array is truthy and pushes nothing.
PushFlatten(results, ruleResult) ==
  CASE ruleResult.tag = "null"   -> results
    [] ruleResult.tag = "array"  -> results \o ruleResult.rs
    [] ruleResult.tag = "single" -> Append(results, ruleResult.r)

\* lintCommands / lintDocument, `if (ruleResult) results.push(...ruleResult)`.
\* The entry points are typed LintResult[] | null: only these two tags occur.
PushSpread(results, ruleResult) ==
  CASE ruleResult.tag = "null"  -> results
    [] ruleResult.tag = "array" -> results \o ruleResult.rs

\* Faulty variant: findings on a node that already has a finding from an earlier
\* rule are dropped (deduplication across rules).
PushDeduplicated(entry, results, ruleResult) ==
  LET new == CASE ruleResult.tag = "null"   -> <<>>
               [] ruleResult.tag = "array"  -> ruleResult.rs
               [] ruleResult.tag = "single" -> <<ruleResult.r>>
  IN IF \E i \in 1..Len(results) : \E j \in 1..Len(new) : results[i].node = new[j].node
     THEN results
     ELSE results \o new

\* The push step of the four loops.
Push(entry, results, ruleResult) ==
  IF entry \in {"validateSignal", "validateCommand"}
  THEN PushFlatten(results, ruleResult)
  ELSE PushSpread(results, ruleResult)

\* Faulty variant: the loop catches the exception and returns the list built so far.
ThrownSwallowed(results, invoked) ==
  [threw |-> FALSE, results |-> results, invoked |-> invoked]

\* A rule that throws: the exception leaves the loop and the method; the
\* list built so far is lost with the frame.
Thrown(results, invoked) == [threw |-> TRUE, results |-> <<>>, invoked |-> invoked]

\* `for (const rule of enabledRules) { if (rule.validateX) { ... } }`.
\* The outcome records whether the call threw, the list returned, and the
\* ids of the rules whose entry point was invoked, in invocation order.
RECURSIVE RunRules(_, _, _, _, _, _)
RunRules(rules, i, entry, arg, results, invoked) ==
  IF i > Len(rules)
  THEN [threw |-> FALSE, results |-> results, invoked |-> invoked]
  ELSE IF ~HasEntry(rules[i], entry)
       THEN RunRules(rules, i + 1, entry, arg, results, invoked)
       ELSE LET ruleResult == Invoke(rules[i], entry, arg) IN
            IF ruleResult.tag = "throw"
            THEN Thrown(results, Append(invoked, rules[i].id))
            ELSE RunRules(rules, i + 1, entry, arg,
                          Push(entry, results, ruleResult),
                          Append(invoked, rules[i].id))

lintSignal(c, arg) == RunRules(getEnabledRules(c), 1, "validateSignal", arg, NewResults, <<>>)
lintCommand(c, arg) == RunRules(getEnabledRules(c), 1, "validateCommand", arg, NewResults, <<>>)
lintCommands(c, arg) == RunRules(getEnabledRules(c), 1, "validateCommands", arg, NewResults, <<>>)
lintDocument(c, arg) == RunRules(getEnabledRules(c), 1, "validateDocument", arg, NewResults, <<>>)

---------------------------------------------------------------------------
(* The standalone CliSignalLinter of linterCli.ts: the same four loops,    *)
(* written out a second time.                                              *)

StandalonePush(entry, results, ruleResult) ==
  IF entry \in {"validateSignal", "validateCommand"}
  THEN CASE ruleResult.tag = "null"   -> results
         [] ruleResult.tag = "array"  -> results \o ruleResult.rs
         [] ruleResult.tag = "single" -> Append(results, ruleResult.r)
  ELSE CASE ruleResult.tag = "null"  -> results
         [] ruleResult.tag = "array" -> results \o ruleResult.rs

\* Faulty variant: this copy of the loop catches a rule's exception and goes
\* on with the next rule.
RECURSIVE StandaloneRunRulesCatching(_, _, _, _, _, _)
StandaloneRunRulesCatching(rules, i, entry, arg, results, invoked) ==
  IF i > Len(rules)
  THEN [threw |-> FALSE, results |-> results, invoked |-> invoked]
  ELSE IF ~HasEntry(rules[i], entry)
       THEN StandaloneRunRulesCatching(rules, i + 1, entry, arg, results, invoked)
       ELSE LET ruleResult == Invoke(rules[i], entry, arg) IN
            StandaloneRunRulesCatching(rules, i + 1, entry, arg,
                                       IF ruleResult.tag = "throw" THEN results
                                       ELSE StandalonePush(entry, results, ruleResult),
                                       Append(invoked, rules[i].id))

RECURSIVE StandaloneRunRules(_, _, _, _, _, _)
StandaloneRunRules(rules, i, entry, arg, results, invoked) ==
  IF i > Len(rules)
  THEN [threw |-> FALSE, results |-> results, invoked |-> invoked]
  ELSE IF ~HasEntry(rules[i], entry)
       THEN StandaloneRunRules(rules, i + 1, entry, arg, results, invoked)
       ELSE LET ruleResult == Invoke(rules[i], entry, arg) IN
            IF ruleResult.tag = "throw"
            THEN [threw |-> TRUE, results |-> <<>>, invoked |-> Append(invoked, rules[i].id)]
            ELSE StandaloneRunRules(rules, i + 1, entry, arg,
                                    StandalonePush(entry, results, ruleResult),
                                    Append(invoked, rules[i].id))

StandaloneLint(entry, c, arg) == StandaloneRunRules(getEnabledRules(c), 1, entry, arg, <<>>, <<>>)

\* `linter.lintX(...)` on the object the front-end created.
Linters == {"derived", "standalone"}

CallLintSignal(l, c, arg) ==
  IF l = "derived" THEN lintSignal(c, arg) ELSE StandaloneLint("validateSignal", c, arg)
CallLintCommand(l, c, arg) ==
  IF l = "derived" THEN lintCommand(c, arg) ELSE StandaloneLint("validateCommand", c, arg)
CallLintCommands(l, c, arg) ==
  IF l = "derived" THEN lintCommands(c, arg) ELSE StandaloneLint("validateCommands", c, arg)
CallLintDocument(l, c, arg) ==
  IF l = "derived" THEN lintDocument(c, arg) ELSE StandaloneLint("validateDocument", c, arg)

---------------------------------------------------------------------------
(* The parsed document.  commands[k] is the number of signals of command k,*)
(* or NoSignals when the command has no `signals` array.  hasCommands says *)
(* whether findNodeAtLocation(rootNode, ['commands']) yields an array.     *)

NoSignals == 0 - 1

RECURSIVE SeqsUpTo(_, _)
SeqsUpTo(S, n) ==
  IF n = 0 THEN {<<>>}
  ELSE LET shorter == SeqsUpTo(S, n - 1) IN
       shorter \cup {Append(q, x) : q \in {t \in shorter : Len(t) = n - 1}, x \in S}

Documents ==
  {[hasCommands |-> FALSE, commands |-> <<>>]}
  \cup {[hasCommands |-> TRUE, commands |-> q] :
          q \in SeqsUpTo({NoSignals} \cup (0..MaxSignals), MaxCommands)}

\* signalsNode?.children?.map(...) || []  and  signalsNode?.children
SignalCount(d, k) == IF d.commands[k] = NoSignals THEN 0 ELSE d.commands[k]

RootArg == [node |-> RootNode, children |-> 0]
CommandsArg(d) == [node |-> CommandsNode, children |-> Len(d.commands)]
CommandArg(d, k) == [node |-> CommandNode(k), children |-> SignalCount(d, k)]
SignalArg(k, s) == [node |-> SignalNode(k, s), children |-> 0]

---------------------------------------------------------------------------
(* The CLI lint pass, cli.ts lintCommand.                                  *)

NoOutput ==
  [mode |-> "none", results |-> <<>>, errors |-> <<>>, warnings |-> <<>>,
   info |-> <<>>, infoLines |-> <<>>, more |-> 0, total |-> 0]

\* s.includes(sub) on the texts of the model (rule ids and messages) for the
\* substrings the renderer looks for; the test is case-sensitive.
includes(s, sub) ==
  CASE sub = "Error"   -> s \in {"r2Error"}
    [] sub = "Warning" -> s \in {"r3Warning"}
    [] sub = "error"   -> s \in {"error after warning", "an error"}
    [] sub = "warning" -> s \in {"error after warning"}
    [] OTHER           -> FALSE

\* The filters of the text rendering.
IsError(r) == includes(r.ruleId, "Error") \/ includes(r.message, "error")
IsWarning(r) == includes(r.ruleId, "Warning") \/ includes(r.message, "warning")

\* The number of Info lines printed before "... and N more".
InfoLinesShown == 10

\* What the pass prints: the JSON of the results, the "No issues found"
\* line, or the text with its Errors, Warnings and Info groups and the total.
Render(jsonOutput, results) ==
  IF jsonOutput
  THEN [NoOutput EXCEPT !.mode = "json", !.results = results]
  ELSE IF Len(results) = 0
  THEN [NoOutput EXCEPT !.mode = "noissues"]
  ELSE LET errors == SelectSeq(results, IsError)
           warnings == SelectSeq(results, IsWarning)
           info == SelectSeq(results, LAMBDA r : ~IsError(r) /\ ~IsWarning(r))
       IN [mode |-> "text", results |-> results,
           errors |-> errors, warnings |-> warnings, info |-> info,
           infoLines |-> IF Len(info) > InfoLinesShown
                         THEN SubSeq(info, 1, InfoLinesShown) ELSE info,
           more |-> IF Len(info) > InfoLinesShown THEN Len(info) - InfoLinesShown ELSE 0,
           total |-> Len(results)]
NoPrev == [pc |-> "none", cfg |-> <<>>, calls |-> <<>>, results |-> <<>>]

\* Variables of the suggestion rule, idle while a pass runs.
RuleIdle ==
  /\ table = <<>> /\ source = <<>> /\ offset = 0 /\ rpc = "idle"
  /\ result = [tag |-> "null"] /\ first = [tag |-> "null"]

Init ==
  /\ cfg \in [1..MaxRules -> BOOLEAN]
  /\ linter \in Linters
  /\ doc \in Documents
  /\ second = FALSE
  /\ pc = "lintDocument"
  /\ ci = 0 /\ si = 0
  /\ allResults = <<>>
  /\ calls = <<>>
  /\ out = NoOutput
  /\ exitCode = 0 - 1
  /\ prev = NoPrev
  /\ RuleIdle
  /\ EditorIdle

\* The catch block: console.error(...) on stderr, process.exit(1).  Nothing
\* is printed on stdout.
Abort(op, arg, o) ==
  /\ pc' = "aborted"
  /\ exitCode' = 1
  /\ calls' = Append(calls, [op |-> op, node |-> arg.node, threw |-> TRUE,
                             ret |-> o.results, invoked |-> o.invoked])
  /\ UNCHANGED <<allResults, out, ci, si>>

\* Faulty variant: `allResults.unshift(...xResults)`, the new results go in front.
CollectInFront(op, arg, o) ==
  /\ allResults' = o.results \o allResults
  /\ calls' = Append(calls, [op |-> op, node |-> arg.node, threw |-> FALSE,
                             ret |-> o.results, invoked |-> o.invoked])
  /\ UNCHANGED <<out, exitCode>>

\* `allResults.push(...xResults)` after a call that returned.
Collect(op, arg, o) ==
  /\ allResults' = allResults \o o.results
  /\ calls' = Append(calls, [op |-> op, node |-> arg.node, threw |-> FALSE,
                             ret |-> o.results, invoked |-> o.invoked])
  /\ UNCHANGED <<out, exitCode>>

\* Faulty variant: the loop over the commands runs once more than there are commands.
NextCommandOnceMore(k) ==
  IF k <= Len(doc.commands)
  THEN pc' = "lintCommand" /\ ci' = k + 1 /\ si' = 0
  ELSE pc' = "output" /\ ci' = k /\ si' = 0

\* After command k and its signals: the next command, or the output.
NextCommand(k) ==
  IF k < Len(doc.commands)
  THEN pc' = "lintCommand" /\ ci' = k + 1 /\ si' = 0
  ELSE pc' = "output" /\ ci' = k /\ si' = 0

CliLintDocument ==
  /\ pc = "lintDocument"
  /\ LET o == CallLintDocument(linter, cfg, RootArg) IN
     IF o.threw THEN Abort("lintDocument", RootArg, o)
     ELSE /\ Collect("lintDocument", RootArg, o)
          /\ pc' = IF doc.hasCommands THEN "lintCommands" ELSE "output"
          /\ UNCHANGED <<ci, si>>
  /\ UNCHANGED <<cfg, linter, doc, second, prev>>
  /\ UNCHANGED ruleVars
  /\ UNCHANGED editorVars

CliLintCommands ==
  /\ pc = "lintCommands"
  /\ LET arg == CommandsArg(doc)
         o == CallLintCommands(linter, cfg, arg) IN
     IF o.threw THEN Abort("lintCommands", arg, o)
     ELSE /\ Collect("lintCommands", arg, o)
          /\ NextCommand(0)
  /\ UNCHANGED <<cfg, linter, doc, second, prev>>
  /\ UNCHANGED ruleVars
  /\ UNCHANGED editorVars

CliLintCommand ==
  /\ pc = "lintCommand"
  /\ LET arg == CommandArg(doc, ci)
         o == CallLintCommand(linter, cfg, arg) IN
     IF o.threw THEN Abort("lintCommand", arg, o)
     ELSE /\ Collect("lintCommand", arg, o)
          /\ IF SignalCount(doc, ci) > 0
             THEN pc' = "lintSignal" /\ si' = 1 /\ ci' = ci
             ELSE NextCommand(ci)
  /\ UNCHANGED <<cfg, linter, doc, second, prev>>
  /\ UNCHANGED ruleVars
  /\ UNCHANGED editorVars

CliLintSignal ==
  /\ pc = "lintSignal"
  /\ LET arg == SignalArg(ci, si)
         o == CallLintSignal(linter, cfg, arg) IN
     IF o.threw THEN Abort("lintSignal", arg, o)
     ELSE /\ Collect("lintSignal", arg, o)
          /\ IF si < SignalCount(doc, ci)
             THEN pc' = "lintSignal" /\ si' = si + 1 /\ ci' = ci
             ELSE NextCommand(ci)
  /\ UNCHANGED <<cfg, linter, doc, second, prev>>
  /\ UNCHANGED ruleVars
  /\ UNCHANGED editorVars

\* `if (jsonOutput) console.log(JSON.stringify(allResults)) else ...`: the
\* pass prints the collected sequence and returns.
CliOutput ==
  /\ pc = "output"
  /\ \E jsonOutput \in BOOLEAN :
       out' = Render(jsonOutput, allResults)
  /\ pc' = "done"
  /\ exitCode' = 0
  /\ UNCHANGED <<cfg, linter, doc, second, ci, si, allResults, calls, prev>>
  /\ UNCHANGED ruleVars
  /\ UNCHANGED editorVars

\* The same document is linted again by a new process, with the registry
\* configuration unchanged.
RunAgain ==
  /\ pc \in {"done", "aborted"}
  /\ ~second
  /\ second' = TRUE
  /\ prev' = [pc |-> pc, cfg |-> cfg, calls |-> calls, results |-> allResults]
  /\ pc' = "lintDocument"
  /\ ci' = 0 /\ si' = 0
  /\ allResults' = <<>> /\ calls' = <<>>
  /\ out' = NoOutput /\ exitCode' = 0 - 1
  /\ UNCHANGED <<cfg, linter, doc>>
  /\ UNCHANGED ruleVars
  /\ UNCHANGED editorVars

\* The same document is linted again after one enabled rule was disabled in
\* the registry configuration.
RunAgainWithout ==
  /\ pc \in {"done", "aborted"}
  /\ ~second
  /\ \E r \in 1..MaxRules :
       /\ cfg[r]
       /\ cfg' = [cfg EXCEPT ![r] = FALSE]
  /\ second' = TRUE
  /\ prev' = [pc |-> pc, cfg |-> cfg, calls |-> calls, results |-> allResults]
  /\ pc' = "lintDocument"
  /\ ci' = 0 /\ si' = 0
  /\ allResults' = <<>> /\ calls' = <<>>
  /\ out' = NoOutput /\ exitCode' = 0 - 1
  /\ UNCHANGED <<linter, doc>>
  /\ UNCHANGED ruleVars
  /\ UNCHANGED editorVars

Next ==
  \/ CliLintDocument
  \/ CliLintCommands
  \/ CliLintCommand
  \/ CliLintSignal
  \/ CliOutput
  \/ RunAgain
  \/ RunAgainWithout

Spec == Init /\ [][Next]_vars

---------------------------------------------------------------------------
(* What the claims speak of, stated independently of the dispatch loop.    *)

EntryOf(op) ==
  CASE op = "lintSignal"   -> "validateSignal"
    [] op = "lintCommand"  -> "validateCommand"
    [] op = "lintCommands" -> "validateCommands"
    [] op = "lintDocument" -> "validateDocument"

\* The argument of the engine call made on `node` of document d.
ArgOf(d, node) ==
  CASE node.kind = "root"     -> RootArg
    [] node.kind = "commands" -> CommandsArg(d)
    [] node.kind = "command"  -> CommandArg(d, node.c)
    [] node.kind = "signal"   -> SignalArg(node.c, node.s)

\* The findings one rule contributes at one entry point: nothing when it
\* lacks the entry point or returns null, its one result, or its array.
Findings(rule, entry, arg) ==
  IF ~HasEntry(rule, entry) THEN <<>>
  ELSE LET v == Invoke(rule, entry, arg) IN
       CASE v.tag = "single" -> <<v.r>>
         [] v.tag = "array"  -> v.rs
         [] OTHER            -> <<>>

\* The enabled rules, by index into the registry, in registration order.
EnabledIdx(c) == {i \in 1..MaxRules : c[i]}

\* Concatenation of the findings of enabled rules i..MaxRules.
RECURSIVE ConcatFindings(_, _, _, _)
ConcatFindings(c, i, entry, arg) ==
  IF i > MaxRules THEN <<>>
  ELSE (IF c[i] THEN Findings(Registry[i], entry, arg) ELSE <<>>)
       \o ConcatFindings(c, i + 1, entry, arg)

\* Ids of the enabled rules that implement the entry point, in order.
RECURSIVE Implementers(_, _, _)
Implementers(c, i, entry) ==
  IF i > MaxRules THEN <<>>
  ELSE (IF c[i] /\ HasEntry(Registry[i], entry) THEN <<Registry[i].id>> ELSE <<>>)
       \o Implementers(c, i + 1, entry)

\* Some enabled rule throws at this entry point.
EnabledThrows(c, entry) == \E i \in EnabledIdx(c) : Registry[i][entry] = "throw"

\* The engine calls of a pass over document d, in the order the spec gives:
\* document, commands, then per command the command and each of its signals.
CommandCalls(d, k) ==
  <<[op |-> "lintCommand", node |-> CommandNode(k)]>>
  \o [s \in 1..SignalCount(d, k) |-> [op |-> "lintSignal", node |-> SignalNode(k, s)]]

PerCommandCalls(d) == Flatten([k \in 1..Len(d.commands) |-> CommandCalls(d, k)])

\* ... for a document that has a commands section,
CallsWithCommands(d) ==
  <<[op |-> "lintDocument", node |-> RootNode],
    [op |-> "lintCommands", node |-> CommandsNode]>> \o PerCommandCalls(d)

\* ... and for any document: without a commands section only the document
\* check is made.
ExpectedCalls(d) ==
  IF d.hasCommands THEN CallsWithCommands(d)
  ELSE <<[op |-> "lintDocument", node |-> RootNode]>>

\* The calls the pass made so far, without their returns.
CallSeq == [i \in 1..Len(calls) |-> [op |-> calls[i].op, node |-> calls[i].node]]

\* The returns of the calls the pass made so far, concatenated.
Returned == Flatten([i \in 1..Len(calls) |-> calls[i].ret])

\* Document order of nodes: root, commands, then command k before its
\* signals, and everything of command k before command k+1.
NodeRank(node) ==
  CASE node.kind = "root"     -> 0
    [] node.kind = "commands" -> 1
    [] node.kind = "command"  -> 2 + node.c * (MaxSignals + 2)
    [] node.kind = "signal"   -> 2 + node.c * (MaxSignals + 2) + node.s

InCallOrder(rs) ==
  \A i, j \in 1..Len(rs) : i < j => NodeRank(rs[i].node) <= NodeRank(rs[j].node)

Finished == pc \in {"done", "aborted"}
Completed == pc \in {"output", "done"}

---------------------------------------------------------------------------
\* C1: every engine call that returns yields exactly the concatenation, in
\* enabled-rule order, of the findings of the enabled rules implementing
\* the entry point (null: nothing, single: one element, array: its elements
\* in order); the rules invoked are exactly those implementing it, each
\* once and in order, and a call that throws invoked a prefix of them.
C1_Concatenation ==
  \A i \in 1..Len(calls) :
    LET call == calls[i]
        entry == EntryOf(call.op)
        arg == ArgOf(doc, call.node) IN
    /\ IsPrefix(call.invoked, Implementers(cfg, 1, entry))
    /\ ~call.threw =>
         /\ call.invoked = Implementers(cfg, 1, entry)
         /\ call.ret = ConcatFindings(cfg, 1, entry, arg)

\* A lintSignal call that returned with a rule lacking nothing (r1: single),
\* an array rule (r2: two elements) and a null rule (r3) enabled, and a
\* lintCommand call in which r1, lacking validateCommand, was skipped.
C1_Witness ==
  /\ cfg[1] /\ cfg[2] /\ cfg[3]
  /\ \E i \in 1..Len(calls) :
       calls[i].op = "lintSignal" /\ ~calls[i].threw /\ Len(calls[i].ret) = 3
  /\ \E i \in 1..Len(calls) :
       calls[i].op = "lintCommand" /\ ~calls[i].threw /\ calls[i].invoked[1] = "r2Error"

C3_Original ==
  Len(doc.commands) = 0 =>
    \A i \in 1..Len(calls) : calls[i].op # "lintDocument" => calls[i].ret = <<>>

\* C3 (amended): for a document with zero commands the pass makes no
\* lintCommand and no lintSignal call, so the per-command/per-signal
\* traversal contributes nothing; lintCommands (called when the commands
\* section is present) returns what the enabled rules report on the empty
\* commands node itself, so every collected result is attached to the root
\* or to the commands node.
C3_ZeroCommands ==
  Len(doc.commands) = 0 =>
    /\ pc \notin {"lintCommand", "lintSignal"}
    /\ \A i \in 1..Len(calls) : calls[i].op \in {"lintDocument", "lintCommands"}
    /\ \A i \in 1..Len(allResults) : allResults[i].node \in {RootNode, CommandsNode}
    /\ \A i \in 1..Len(calls) :
         (calls[i].op = "lintCommands" /\ ~calls[i].threw) =>
           calls[i].ret = ConcatFindings(cfg, 1, "validateCommands", CommandsArg(doc))

\* A completed pass over an empty commands array with a document-level
\* finding and a finding on the commands node.
C3_Witness ==
  /\ pc = "done"
  /\ doc.hasCommands /\ Len(doc.commands) = 0
  /\ \E i \in 1..Len(allResults) : allResults[i].node = RootNode
  /\ \E i \in 1..Len(allResults) : allResults[i].node = CommandsNode

\* The rule disabled between the first and the second pass.
Disabled == {r \in 1..MaxRules : prev.cfg[r] /\ ~cfg[r]}
Without(rs) == SelectSeq(rs, LAMBDA x : \A r \in Disabled : x.ruleId # Registry[r].id)

\* C4: with one rule disabled, every engine call that returned in the first
\* pass is made again on the same node, returns, and returns the first
\* pass's list with exactly the disabled rule's results deleted; a completed
\* first pass is completed again and its collected sequence is the first
\* one with the disabled rule's results deleted.
C4_RuleIsolation ==
  (second /\ Disabled # {}) =>
    /\ \A i \in 1..Len(prev.calls) :
         (~prev.calls[i].threw /\ (i <= Len(calls) \/ Finished)) =>
           /\ i <= Len(calls)
           /\ calls[i].op = prev.calls[i].op
           /\ calls[i].node = prev.calls[i].node
           /\ ~calls[i].threw
           /\ calls[i].ret = Without(prev.calls[i].ret)
    /\ prev.pc = "done" => pc # "aborted"
    /\ (prev.pc = "done" /\ pc = "done") =>
         /\ Len(calls) = Len(prev.calls)
         /\ allResults = Without(prev.results)

\* Both passes completed, the disabled rule had results in the first pass
\* and another rule's results are kept.
C4_Witness ==
  /\ second /\ Disabled # {}
  /\ prev.pc = "done" /\ pc = "done"
  /\ Len(allResults) > 0
  /\ Len(allResults) < Len(prev.results)

PassThrows(c, d) ==
  \E i \in 1..Len(ExpectedCalls(d)) : EnabledThrows(c, EntryOf(ExpectedCalls(d)[i].op))

\* The complete result sequence of a pass over d under configuration c.
CompleteResults(c, d) ==
  Flatten([i \in 1..Len(ExpectedCalls(d)) |->
             ConcatFindings(c, 1, EntryOf(ExpectedCalls(d)[i].op),
                            ArgOf(d, ExpectedCalls(d)[i].node))])

\* C6: a call in which a rule throws returns no list, is the last call of
\* the pass and puts the pass in the error exit with nothing printed; a pass
\* in which some rule invocation throws never reaches the output; whatever
\* is printed is the complete result sequence.
C6_FailFast ==
  /\ \A i \in 1..Len(calls) :
       calls[i].threw => /\ calls[i].ret = <<>>
                         /\ i = Len(calls)
                         /\ pc = "aborted"
  /\ pc = "aborted" => (out = NoOutput /\ exitCode = 1)
  /\ PassThrows(cfg, doc) => (out = NoOutput /\ ~Completed /\ exitCode # 0)
  /\ out # NoOutput => (pc = "done" /\ exitCode = 0 /\ out.results = CompleteResults(cfg, doc))

\* A pass aborted by a throwing rule after results were already collected.
C6_Witness ==
  /\ pc = "aborted"
  /\ Len(allResults) > 0
  /\ out = NoOutput

---------------------------------------------------------------------------
(* JSON text, tree nodes and JavaScript objects.                           *)
(*                                                                         *)
(* The text buffer is a sequence of tokens, each a pair of strings: the    *)
(* braces of an object and, between them, one token <<key, value>> per     *)
(* member.  Offsets and lengths count tokens.  Values are strings; ""      *)
(* stands for the values JavaScript treats as false ("", null, 0, false).  *)

Open == <<"{", "">>
Close == <<"}", "">>
Undefined == "undefined"

\* jsonc: the object node that starts at offset off, up to its closing brace.
RECURSIVE ClosingAt(_, _)
ClosingAt(buf, i) == IF buf[i] = Close THEN i ELSE ClosingAt(buf, i + 1)

NodeAt(buf, off) ==
  LET e == ClosingAt(buf, off + 2) IN
  [offset |-> off, length |-> e - off, members |-> SubSeq(buf, off + 2, e - 1)]

\* A JavaScript object: its own properties <<key, value>> in property order
\* (array-index keys in ascending order first, then the others in
\* insertion order).
ArrayIndexKeys == {"0", "1"}
IndexOf(key) == IF key = "0" THEN 0 ELSE 1

Has(obj, key) == \E i \in 1..Len(obj) : obj[i][1] = key

\* obj[key], obj.key
Get(obj, key) ==
  IF Has(obj, key) THEN obj[CHOOSE i \in 1..Len(obj) : obj[i][1] = key][2] ELSE Undefined

\* obj[key] = value
SetProp(obj, key, value) ==
  IF Has(obj, key)
  THEN [i \in 1..Len(obj) |-> IF obj[i][1] = key THEN <<key, value>> ELSE obj[i]]
  ELSE IF key \in ArrayIndexKeys
       THEN LET n == Cardinality({i \in 1..Len(obj) :
                                    /\ obj[i][1] \in ArrayIndexKeys
                                    /\ IndexOf(obj[i][1]) < IndexOf(key)})
            IN SubSeq(obj, 1, n) \o <<<<key, value>>>> \o SubSeq(obj, n + 1, Len(obj))
       ELSE Append(obj, <<key, value>>)

\* jsonc.getNodeValue(node): the members assigned one by one to a new object.
RECURSIVE AssignAll(_, _)
AssignAll(obj, members) ==
  IF members = <<>> THEN obj
  ELSE AssignAll(SetProp(obj, Head(members)[1], Head(members)[2]), Tail(members))

getNodeValue(node) == AssignAll(<<>>, node.members)

\* JSON.stringify(obj): the properties in property order between braces.
JSONstringify(obj) == <<Open>> \o obj \o <<Close>>

\* JavaScript truthiness of a property read.
Truthy(v) == v # Undefined /\ v # ""

---------------------------------------------------------------------------
(* SuggestedMetricSuggestionRule.                                          *)

RuleId == "suggested-metric-suggestion"

\* pattern.xPattern ? pattern.xPattern.test(s) : false.  A regular
\* expression is the set of strings it matches; the field may be absent.
Test(regex, s) == regex.present /\ s \in regex.matches

\* Faulty variant: the copy loop has no hasOwnProperty test and overwrites.
RECURSIVE CopyRemainingOverwriting(_, _, _)
CopyRemainingOverwriting(ordered, signalObj, i) ==
  IF i > Len(signalObj) THEN ordered
  ELSE CopyRemainingOverwriting(SetProp(ordered, signalObj[i][1], signalObj[i][2]),
                                signalObj, i + 1)

\* `if (signalObj.k !== undefined) orderedSignal.k = signalObj.k` for the
\* keys id, path, fmt, name in this order.
KnownFirst == <<"id", "path", "fmt", "name">>

RECURSIVE CopyDefined(_, _, _)
CopyDefined(ordered, signalObj, keys) ==
  IF keys = <<>> THEN ordered
  ELSE CopyDefined(IF Get(signalObj, Head(keys)) # Undefined
                   THEN SetProp(ordered, Head(keys), Get(signalObj, Head(keys)))
                   ELSE ordered,
                   signalObj, Tail(keys))

\* `for (const key of Object.keys(signalObj))
\*    if (!orderedSignal.hasOwnProperty(key)) orderedSignal[key] = signalObj[key]`
RECURSIVE CopyRemaining(_, _, _)
CopyRemaining(ordered, signalObj, i) ==
  IF i > Len(signalObj) THEN ordered
  ELSE CopyRemaining(IF ~Has(ordered, signalObj[i][1])
                     THEN SetProp(ordered, signalObj[i][1], signalObj[i][2])
                     ELSE ordered,
                     signalObj, i + 1)

createSignalWithSuggestedMetric(signal, node, suggestedMetric) ==
  LET signalObj == getNodeValue(node)
      known == CopyDefined(<<>>, signalObj, KnownFirst)
      withMetric == SetProp(known, "suggestedMetric", suggestedMetric)
  IN JSONstringify(CopyRemaining(withMetric, signalObj, 1))

\* Faulty variant: an excluded name only cancels a name match, not an id match.
PatternMatchesIdUnexcluded(pattern, signal) ==
  LET idMatches == Test(pattern.idPattern, Get(signal, "id"))
      nameMatches == Test(pattern.namePattern, Get(signal, "name"))
      excludedByName == Test(pattern.excludeNamePattern, Get(signal, "name"))
  IN idMatches \/ (nameMatches /\ ~excludedByName)

\* `(idMatches || nameMatches) && !excludedByName`
PatternMatches(pattern, signal) ==
  LET idMatches == Test(pattern.idPattern, Get(signal, "id"))
      nameMatches == Test(pattern.namePattern, Get(signal, "name"))
      excludedByName == Test(pattern.excludeNamePattern, Get(signal, "name"))
  IN (idMatches \/ nameMatches) /\ ~excludedByName

\* Faulty variant: the edit replaces the members between the braces only.
SuggestionInsideBraces(signal, node, pattern) ==
  [tag |-> "single",
   r |-> [ruleId |-> RuleId,
          message |-> pattern.suggestedMetric,
          node |-> [offset |-> node.offset, length |-> node.length],
          suggestion |->
            [title |-> pattern.suggestedMetric,
             edits |-> << [newText |-> createSignalWithSuggestedMetric(
                                         signal, node, pattern.suggestedMetric),
                           offset |-> node.offset + 1,
                           length |-> node.length - 2] >>]]]

\* The result returned for a matching pattern.
Suggestion(signal, node, pattern) ==
  [tag |-> "single",
   r |-> [ruleId |-> RuleId,
          message |-> pattern.suggestedMetric,
          node |-> [offset |-> node.offset, length |-> node.length],
          suggestion |->
            [title |-> pattern.suggestedMetric,
             edits |-> << [newText |-> createSignalWithSuggestedMetric(
                                         signal, node, pattern.suggestedMetric),
                           offset |-> node.offset,
                           length |-> node.length] >>]]]

\* Faulty variant: the loop keeps going and the last matching pattern wins.
RECURSIVE LastMatch(_, _, _, _)
LastMatch(patterns, i, signal, node) ==
  IF i < 1 THEN [tag |-> "null"]
  ELSE IF PatternMatches(patterns[i], signal)
       THEN Suggestion(signal, node, patterns[i])
       ELSE LastMatch(patterns, i - 1, signal, node)

LastMatchFrom(patterns, i, signal, node) == LastMatch(patterns, Len(patterns), signal, node)

\* `for (const pattern of this.metricPatterns) { ... return {...} } return null`
RECURSIVE FirstMatch(_, _, _, _)
FirstMatch(patterns, i, signal, node) ==
  IF i > Len(patterns) THEN [tag |-> "null"]
  ELSE IF PatternMatches(patterns[i], signal)
       THEN Suggestion(signal, node, patterns[i])
       ELSE FirstMatch(patterns, i + 1, signal, node)

validateSignal(patterns, signal, node) ==
  IF Truthy(Get(signal, "suggestedMetric")) THEN [tag |-> "null"]
  ELSE IF ~Truthy(Get(signal, "id")) \/ ~Truthy(Get(signal, "name")) THEN [tag |-> "null"]
  ELSE FirstMatch(patterns, 1, signal, node)

\* Applying a suggestion's edits to the buffer: each replaces `length`
\* tokens from `offset` by newText (the rule emits one edit).
RECURSIVE ApplyEdits(_, _)
ApplyEdits(buf, edits) ==
  IF edits = <<>> THEN buf
  ELSE LET e == Head(edits) IN
       ApplyEdits(SubSeq(buf, 1, e.offset) \o e.newText
                    \o SubSeq(buf, e.offset + e.length + 1, Len(buf)),
                  Tail(edits))

---------------------------------------------------------------------------
(* Inputs of the rule: the pattern table and the signal in its buffer.     *)

NoPattern == [present |-> FALSE, matches |-> {}]
Regex(S) == [present |-> TRUE, matches |-> S]

\* The suggested value of the pattern at position i of the table.
MetricName(i) ==
  CASE i = 1 -> "m1" [] i = 2 -> "m2" [] i = 3 -> "m3" [] OTHER -> "m4"

PatternShapes ==
  [idPattern : {NoPattern, Regex({"I1"})},
   namePattern : {NoPattern, Regex({"N1", "N2"})},
   excludeNamePattern : {NoPattern, Regex({"N2"})}]

\* METRIC_PATTERNS: an ordered table of patterns, each with a non-empty
\* suggested value.
Tables ==
  {[i \in 1..Len(q) |->
      [idPattern |-> q[i].idPattern, namePattern |-> q[i].namePattern,
       excludeNamePattern |-> q[i].excludeNamePattern,
       suggestedMetric |-> MetricName(i)]] : q \in SeqsUpTo(PatternShapes, MaxPatterns)}

IdValues == {Undefined, "", "I1", "I2"}
NameValues == {Undefined, "", "N1", "N2", "N3"}
MetricValues == {Undefined, "", "x"}

Present(members) == SelectSeq(members, LAMBDA m : m[2] # Undefined)

\* The buffer holding the signal, and the signal node's offset in it.
\* Layout "A": the object alone, members id, name, suggestedMetric.
\* Layout "B": the object inside an array, members unit, suggestedMetric,
\* name, id.
\* Layout "C": the object alone, members unit, name, fmt, 0, id, path,
\* description, suggestedMetric.
Layouts == {"A", "B", "C"}

Buffer(layout, id, name, metric) ==
  CASE layout = "A" ->
         <<Open>>
         \o Present(<< <<"id", id>>, <<"name", name>>, <<"suggestedMetric", metric>> >>)
         \o <<Close>>
    [] layout = "B" ->
         << <<"[", "">>, Open >>
         \o Present(<< <<"unit", "u">>, <<"suggestedMetric", metric>>,
                       <<"name", name>>, <<"id", id>> >>)
         \o << Close, <<"]", "">> >>
    [] OTHER ->
         <<Open>>
         \o Present(<< <<"unit", "u">>, <<"name", name>>, <<"fmt", "f">>,
                       <<"0", "z">>, <<"id", id>>, <<"path", "p">>,
                       <<"description", "d">>, <<"suggestedMetric", metric>> >>)
         \o <<Close>>

OffsetOf(layout) == IF layout = "B" THEN 1 ELSE 0

\* Variables of the pass, idle while the rule runs.
PassIdle ==
  /\ cfg = [i \in 1..MaxRules |-> FALSE] /\ linter = "derived"
  /\ doc = [hasCommands |-> FALSE, commands |-> <<>>]
  /\ second = FALSE /\ pc = "idle" /\ ci = 0 /\ si = 0
  /\ allResults = <<>> /\ calls = <<>> /\ out = NoOutput /\ exitCode = 0 - 1
  /\ prev = NoPrev

InitRule ==
  /\ table \in Tables
  /\ \E layout \in Layouts, id \in IdValues, name \in NameValues, metric \in MetricValues :
       /\ source = Buffer(layout, id, name, metric)
       /\ offset = OffsetOf(layout)
  /\ rpc = "lint"
  /\ result = [tag |-> "null"]
  /\ first = [tag |-> "null"]
  /\ PassIdle
  /\ EditorIdle

\* The signal node of the buffer and the signal handed to the rule
\* (cli.ts: signal = jsonc.getNodeValue(signalNode)).
CurrentNode == NodeAt(source, offset)
CurrentSignal == getNodeValue(CurrentNode)

\* lintSignal on the signal with the suggestion rule.
RuleLint ==
  /\ rpc = "lint"
  /\ result' = validateSignal(table, CurrentSignal, CurrentNode)
  /\ first' = result'
  /\ rpc' = IF result'.tag = "single" THEN "edit" ELSE "end"
  /\ UNCHANGED <<table, source, offset>>
  /\ UNCHANGED passVars
  /\ UNCHANGED editorVars

\* The suggestion's edit is applied to the buffer.
RuleApplyEdit ==
  /\ rpc = "edit"
  /\ source' = ApplyEdits(source, result.r.suggestion.edits)
  /\ rpc' = "relint"
  /\ UNCHANGED <<table, offset, result, first>>
  /\ UNCHANGED passVars
  /\ UNCHANGED editorVars

\* The rewritten buffer is parsed and the signal linted again.
RuleRelint ==
  /\ rpc = "relint"
  /\ result' = validateSignal(table, CurrentSignal, CurrentNode)
  /\ rpc' = "end"
  /\ UNCHANGED <<table, source, offset, first>>
  /\ UNCHANGED passVars
  /\ UNCHANGED editorVars

NextRule ==
  \/ RuleLint
  \/ RuleApplyEdit
  \/ RuleRelint

SpecRule == InitRule /\ [][NextRule]_vars

---------------------------------------------------------------------------
(* What the claims about the rule speak of.                                *)

\* The first lint has run and the buffer is still the original one.
LintedOriginal == rpc = "edit" \/ (rpc = "end" /\ first.tag = "null")

SignalId == Get(CurrentSignal, "id")
SignalName == Get(CurrentSignal, "name")

\* The rule's preconditions: no suggestedMetric yet, id and name usable.
Eligible ==
  /\ ~Truthy(Get(CurrentSignal, "suggestedMetric"))
  /\ Truthy(SignalId) /\ Truthy(SignalName)

IdHit(i) == table[i].idPattern.present /\ SignalId \in table[i].idPattern.matches
NameHit(i) == table[i].namePattern.present /\ SignalName \in table[i].namePattern.matches
Excluded(i) ==
  table[i].excludeNamePattern.present /\ SignalName \in table[i].excludeNamePattern.matches

\* Positions of the patterns that match un-excluded.
Hits == {i \in 1..Len(table) : (IdHit(i) \/ NameHit(i)) /\ ~Excluded(i)}
Earliest(S) == CHOOSE i \in S : \A j \in S : i <= j

\* The suggested value carried by a result: in its message, its title and
\* the rewritten object.
Carries(res, metric) ==
  /\ res.tag = "single"
  /\ res.r.message = metric
  /\ res.r.suggestion.title = metric
  /\ Len(res.r.suggestion.edits) = 1
  /\ \E k \in 1..Len(res.r.suggestion.edits[1].newText) :
       res.r.suggestion.edits[1].newText[k] = <<"suggestedMetric", metric>>

\* C7: validateSignal returns at most one result, and when some pattern
\* matches an eligible signal un-excluded the result carries the suggested
\* value of the earliest such pattern in table order, never a later one's.
C7_FirstMatch ==
  LintedOriginal =>
    /\ first.tag \in {"null", "single"}
    /\ (Eligible /\ Hits # {}) =>
         /\ Carries(first, table[Earliest(Hits)].suggestedMetric)
         /\ \A j \in Hits : j # Earliest(Hits) => ~Carries(first, table[j].suggestedMetric)

\* Two patterns match the signal's id and the result carries the first's value.
C7_Witness ==
  /\ LintedOriginal
  /\ Len(table) = 2 /\ Eligible
  /\ IdHit(1) /\ IdHit(2) /\ Hits = {1, 2}
  /\ Carries(first, "m1")

\* C8: a pattern whose exclusion matches the name never yields its
\* suggestion, whatever its id or name pattern says; the later patterns are
\* still tried, so a result is returned exactly when some pattern matches
\* un-excluded, and it is the suggestion of such a pattern.
C8_Exclusion ==
  LintedOriginal =>
    /\ \A i \in 1..Len(table) : Excluded(i) => ~Carries(first, table[i].suggestedMetric)
    /\ first.tag = "single" => \E j \in Hits : Carries(first, table[j].suggestedMetric)
    /\ Eligible => (first.tag = "null" <=> Hits = {})

\* The first pattern matches the id but is excluded by name; the second
\* matches un-excluded and wins.
C8_Witness ==
  /\ LintedOriginal
  /\ Len(table) = 2 /\ Eligible
  /\ IdHit(1) /\ Excluded(1) /\ 2 \in Hits
  /\ Carries(first, "m2")

\* C9 (as claimed): validateSignal returns null whenever the signal carries
\* a suggestedMetric property, or id or name is absent, whatever the table.
C9_SkipWhenPresent ==
  LintedOriginal =>
    ((Has(CurrentSignal, "suggestedMetric") \/ ~Has(CurrentSignal, "id")
        \/ ~Has(CurrentSignal, "name"))
       => first.tag = "null")

\* C10: when the first lint emitted a suggestion, the buffer with the edit
\* applied holds at the same offset a signal with the suggested value as
\* its suggestedMetric, and linting it again returns null.
C10_Idempotence ==
  (first.tag = "single" /\ rpc \in {"relint", "end"}) =>
    /\ Get(CurrentSignal, "suggestedMetric") = first.r.message
    /\ rpc = "end" => result.tag = "null"

\* A suggestion was emitted for a signal inside an array that had an empty
\* suggestedMetric, the edit was applied and the second lint returned null.
C10_Witness ==
  /\ rpc = "end" /\ first.tag = "single" /\ result.tag = "null"
  /\ offset = 1
  /\ source[1] = <<"[", "">> /\ source[Len(source)] = <<"]", "">>
  /\ Get(CurrentSignal, "suggestedMetric") = "m1"
  /\ Get(CurrentSignal, "unit") = "u"

\* The members of the signal's text before the edit, and the members of the
\* rewritten text carried by the suggestion's edit.
OriginalMembers == CurrentNode.members
RewrittenMembers ==
  LET t == first.r.suggestion.edits[1].newText IN SubSeq(t, 2, Len(t) - 1)

Occurrences(members, key) == Cardinality({i \in 1..Len(members) : members[i][1] = key})

RECURSIVE KnownPresent(_, _)
KnownPresent(members, keys) ==
  IF keys = <<>> THEN <<>>
  ELSE SelectSeq(members, LAMBDA m : m[1] = Head(keys)) \o KnownPresent(members, Tail(keys))

IsKnownFirst(key) == \E i \in 1..Len(KnownFirst) : KnownFirst[i] = key

\* C11 (as claimed): the rewritten object lists id, path, fmt, name (those
\* originally present), then suggestedMetric, then the remaining original
\* properties in their original order; every original key appears exactly
\* once with its original value, suggestedMetric exactly once with the
\* suggested value, and no key is added or lost.
C11_CanonicalOrder ==
  (rpc = "edit") =>
    /\ RewrittenMembers
         = KnownPresent(OriginalMembers, KnownFirst)
           \o << <<"suggestedMetric", first.r.message>> >>
           \o SelectSeq(OriginalMembers,
                        LAMBDA m : ~IsKnownFirst(m[1]) /\ m[1] # "suggestedMetric")
    /\ \A i \in 1..Len(OriginalMembers) :
         /\ Occurrences(RewrittenMembers, OriginalMembers[i][1]) = 1
         /\ OriginalMembers[i] \in {RewrittenMembers[k] : k \in 1..Len(RewrittenMembers)}
    /\ Occurrences(RewrittenMembers, "suggestedMetric") = 1
    /\ \A k \in 1..Len(RewrittenMembers) :
         \/ RewrittenMembers[k][1] = "suggestedMetric"
         \/ Occurrences(OriginalMembers, RewrittenMembers[k][1]) = 1

\* C12: every result the rule emits has the rule's id, the signal node it
\* was given as its node, and a suggestion with exactly one edit, whose
\* offset and length are the node's: the edit starts at the node's opening
\* brace and ends at its closing brace.
C12_EditSpansNode ==
  (rpc = "edit") =>
    /\ first.tag = "single"
    /\ first.r.ruleId = "suggested-metric-suggestion"
    /\ first.r.node = [offset |-> CurrentNode.offset, length |-> CurrentNode.length]
    /\ Len(first.r.suggestion.edits) = 1
    /\ first.r.suggestion.edits[1].offset = CurrentNode.offset
    /\ first.r.suggestion.edits[1].length = CurrentNode.length
    /\ source[first.r.suggestion.edits[1].offset + 1] = Open
    /\ source[first.r.suggestion.edits[1].offset + first.r.suggestion.edits[1].length] = Close
    /\ \A k \in first.r.suggestion.edits[1].offset + 2
               .. first.r.suggestion.edits[1].offset + first.r.suggestion.edits[1].length - 1 :
         source[k] \notin {Open, Close}

\* A result was emitted for a signal that sits inside an array, one token
\* into the buffer: its edit starts at offset 1 and leaves the brackets out.
C12_Witness ==
  /\ rpc = "edit" /\ first.tag = "single"
  /\ offset = 1 /\ source[1] = <<"[", "">>
  /\ first.r.suggestion.edits[1].offset = 1
  /\ first.r.suggestion.edits[1].offset + first.r.suggestion.edits[1].length = Len(source) - 1

---------------------------------------------------------------------------
(* The editor adapter: vscodeAdapter.ts and SignalLinter.                  *)

\* vscode.DiagnosticSeverity
DiagnosticSeverity == [Hint |-> 3, Information |-> 2, Warning |-> 1, Error |-> 0]

\* Faulty variant: a value outside LintSeverity becomes an Information.
mapToVscodeSeverityLenient(severity) ==
  CASE severity = "Error"       -> DiagnosticSeverity.Error
    [] severity = "Warning"     -> DiagnosticSeverity.Warning
    [] severity = "Information" -> DiagnosticSeverity.Information
    [] severity = "Hint"        -> DiagnosticSeverity.Hint
    [] OTHER                    -> DiagnosticSeverity.Information

mapToVscodeSeverity(severity) ==
  CASE severity = "Error"       -> DiagnosticSeverity.Error
    [] severity = "Warning"     -> DiagnosticSeverity.Warning
    [] severity = "Information" -> DiagnosticSeverity.Information
    [] severity = "Hint"        -> DiagnosticSeverity.Hint
    [] OTHER                    -> DiagnosticSeverity.Warning

\* The open document: its text is laid out in lines of lineLength characters.
Document == [lineLength |-> 3]

\* document.positionAt(offset)
positionAt(document, off) ==
  [line |-> off \div document.lineLength, character |-> off % document.lineLength]

\* new vscode.Diagnostic(range, message, severity) with code and source set.
Diagnostic(document, res, vscodeSeverity) ==
  [range |-> [start |-> positionAt(document, res.node.offset),
              end |-> positionAt(document, res.node.offset + res.node.length)],
   message |-> res.message,
   severity |-> vscodeSeverity,
   code |-> res.ruleId,
   source |-> "obdb-linter"]

\* convertToVscodeDiagnostics: the loop from result i on.  getRuleSeverity
\* maps a rule id to what the callback does with it: [tag |-> "value", v |-> s]
\* when it returns s, [tag |-> "throw"] when it throws; a throw leaves the
\* function without a return value.
RECURSIVE ConvertFrom(_, _, _, _, _)
ConvertFrom(document, results, getRuleSeverity, i, diagnostics) ==
  IF i > Len(results) THEN [threw |-> FALSE, diagnostics |-> diagnostics]
  ELSE LET severity == getRuleSeverity[results[i].ruleId] IN
       IF severity.tag = "throw" THEN [threw |-> TRUE, diagnostics |-> <<>>]
       ELSE ConvertFrom(document, results, getRuleSeverity, i + 1,
                        Append(diagnostics,
                               Diagnostic(document, results[i],
                                          mapToVscodeSeverity(severity.v))))

convertToVscodeDiagnostics(document, results, getRuleSeverity) ==
  ConvertFrom(document, results, getRuleSeverity, 1, <<>>)

\* The rule ids results can carry: those of the registered rules and one
\* that no registered rule has.
UnknownId == "r0"
RuleIds == {Registry[i].id : i \in 1..MaxRules} \cup {UnknownId}

\* RuleRegistry.getRuleById(ruleId): the registered rule with this id, or
\* undefined.
NoRule == [id |-> Undefined]
getRuleById(ruleId) ==
  IF \E i \in 1..MaxRules : Registry[i].id = ruleId
  THEN Registry[CHOOSE i \in 1..MaxRules : Registry[i].id = ruleId]
  ELSE NoRule

\* Faulty variant: an unknown rule id gets the severity Warning.
RuleSeverityDefaulting(ruleId) ==
  LET rule == getRuleById(ruleId) IN
  IF rule = NoRule THEN [tag |-> "value", v |-> "Warning"]
  ELSE [tag |-> "value", v |-> rule.severity]

\* The callback toDiagnostics passes to the conversion.
RuleSeverity(ruleId) ==
  LET rule == getRuleById(ruleId) IN
  IF rule = NoRule THEN [tag |-> "throw"]
  ELSE [tag |-> "value", v |-> rule.severity]

\* Faulty variant: the results are stored once the conversion has returned.
toDiagnosticsStoringLast(stored, document, results) ==
  LET o == convertToVscodeDiagnostics(document, results,
                                      [id \in RuleIds |-> RuleSeverity(id)])
  IN [lastResults |-> IF o.threw THEN stored ELSE results,
      threw |-> o.threw, diagnostics |-> o.diagnostics]

\* SignalLinter.toDiagnostics: the new value of lastResults and the outcome.
toDiagnostics(stored, document, results) ==
  LET o == convertToVscodeDiagnostics(document, results,
                                      [id \in RuleIds |-> RuleSeverity(id)])
  IN [lastResults |-> results, threw |-> o.threw, diagnostics |-> o.diagnostics]

---------------------------------------------------------------------------
(* Inputs and operations of the editor's SignalLinter.                     *)

\* The results handed to the linter: per rule id one result, with its own
\* message and node, in lists of at most MaxResults (a list may repeat a
\* result).
PositionOf(ruleId) ==
  IF ruleId = UnknownId THEN 0
  ELSE CHOOSE i \in 1..MaxRules : Registry[i].id = ruleId

ResultOf(ruleId) ==
  [ruleId |-> ruleId,
   message |-> <<"message of", ruleId>>,
   node |-> [offset |-> PositionOf(ruleId), length |-> 1 + (PositionOf(ruleId) % 2)]]

ResultLists == SeqsUpTo({ResultOf(id) : id \in RuleIds}, MaxResults)

\* The registry configurations the editor runs with: the first two rules
\* enabled, or all of them.
EditorConfigs == {[i \in 1..MaxRules |-> i <= k] : k \in {2, MaxRules}}

\* The document open in the editor: one command with one signal.
EditorDocument == [hasCommands |-> TRUE, commands |-> <<1>>]

InitEditor ==
  /\ cfg \in EditorConfigs
  /\ linter = "derived"
  /\ doc = EditorDocument
  /\ second = FALSE /\ pc = "idle" /\ ci = 0 /\ si = 0
  /\ allResults = <<>> /\ calls = <<>> /\ out = NoOutput /\ exitCode = 0 - 1
  /\ prev = NoPrev
  /\ RuleIdle
  /\ EditorIdle

\* A lint operation inherited from BaseLinter: lastResults is not touched.
Linted(op, arg, o) ==
  /\ last' = [op |-> op, arg |-> arg, threw |-> o.threw,
              ret |-> IF o.threw THEN <<>> ELSE o.results]
  /\ UNCHANGED <<lastResults, given>>
  /\ UNCHANGED passVars
  /\ UNCHANGED ruleVars

EditorLintDocument == Linted("lintDocument", RootArg, lintDocument(cfg, RootArg))

EditorLintCommands ==
  Linted("lintCommands", CommandsArg(doc), lintCommands(cfg, CommandsArg(doc)))

EditorLintCommand ==
  Linted("lintCommand", CommandArg(doc, 1), lintCommand(cfg, CommandArg(doc, 1)))

EditorLintSignal ==
  Linted("lintSignal", SignalArg(1, 1), lintSignal(cfg, SignalArg(1, 1)))

EditorToDiagnostics ==
  \E results \in ResultLists :
    LET o == toDiagnostics(lastResults, Document, results) IN
    /\ lastResults' = o.lastResults
    /\ last' = [op |-> "toDiagnostics", arg |-> results, threw |-> o.threw,
                ret |-> o.diagnostics]
    /\ given' = results
    /\ UNCHANGED passVars
    /\ UNCHANGED ruleVars

EditorSetLastResults ==
  \E results \in ResultLists :
    /\ lastResults' = results
    /\ last' = [op |-> "setLastResults", arg |-> results, threw |-> FALSE, ret |-> <<>>]
    /\ given' = results
    /\ UNCHANGED passVars
    /\ UNCHANGED ruleVars

EditorGetLastResults ==
  /\ last' = [op |-> "getLastResults", arg |-> <<>>, threw |-> FALSE, ret |-> lastResults]
  /\ UNCHANGED <<lastResults, given>>
  /\ UNCHANGED passVars
  /\ UNCHANGED ruleVars

NextEditor ==
  \/ EditorLintDocument
  \/ EditorLintCommands
  \/ EditorLintCommand
  \/ EditorLintSignal
  \/ EditorToDiagnostics
  \/ EditorSetLastResults
  \/ EditorGetLastResults

SpecEditor == InitEditor /\ [][NextEditor]_vars

---------------------------------------------------------------------------
(* What the claims about the editor adapter speak of.                      *)

RegisteredIds == {RuleCatalogue[i].id : i \in 1..MaxRules}

\* The declared severity of the registered rule with this id.
DeclaredSeverity(ruleId) ==
  RuleCatalogue[CHOOSE i \in 1..MaxRules : RuleCatalogue[i].id = ruleId].severity

\* The diagnostic severity claimed for a declared severity.
ClaimedSeverity(severity) ==
  CASE severity = "Error"       -> 0
    [] severity = "Warning"     -> 1
    [] severity = "Information" -> 2
    [] severity = "Hint"        -> 3
    [] OTHER                    -> 1

\* C13: toDiagnostics raises an error exactly when some result of its
\* input has a rule id that no registered rule has, and then it returns no
\* diagnostics; when every rule id resolves it raises none.
C13_UnknownRuleFails ==
  (last.op = "toDiagnostics") =>
    /\ last.threw <=> (\E i \in 1..Len(last.arg) : last.arg[i].ruleId \notin RegisteredIds)
    /\ last.threw => last.ret = <<>>

\* toDiagnostics was called with a result of a registered rule followed by
\* one with an unknown rule id, and raised an error.
C13_Witness ==
  /\ last.op = "toDiagnostics" /\ last.threw
  /\ Len(last.arg) = 2
  /\ last.arg[1].ruleId \in RegisteredIds
  /\ last.arg[2].ruleId \notin RegisteredIds
  /\ last.ret = <<>>

\* C14: the conversion returns one diagnostic per result, in input order,
\* with the result's rule id as code, the result's message, the range from
\* the node's offset to offset + length, and the owning rule's severity
\* mapped Error, Warning, Information, Hint to themselves and any other
\* value to Warning.
C14_OneToOne ==
  (last.op = "toDiagnostics" /\ ~last.threw) =>
    /\ Len(last.ret) = Len(last.arg)
    /\ \A i \in 1..Len(last.arg) :
         /\ last.ret[i].code = last.arg[i].ruleId
         /\ last.ret[i].message = last.arg[i].message
         /\ last.ret[i].range.start = positionAt(Document, last.arg[i].node.offset)
         /\ last.ret[i].range.end
              = positionAt(Document, last.arg[i].node.offset + last.arg[i].node.length)
         /\ last.ret[i].severity = ClaimedSeverity(DeclaredSeverity(last.arg[i].ruleId))

\* Two results were converted, the first of a rule whose severity is outside
\* the enumeration (reported as a Warning), the second of a rule declared
\* Hint.
C14_Witness ==
  /\ last.op = "toDiagnostics" /\ ~last.threw
  /\ Len(last.arg) = 2 /\ Len(last.ret) = 2
  /\ DeclaredSeverity(last.arg[1].ruleId) = "Verbose"
  /\ DeclaredSeverity(last.arg[2].ruleId) = "Hint"
  /\ last.ret[1].severity = 1 /\ last.ret[2].severity = 3
  /\ last.ret[1].code = last.arg[1].ruleId /\ last.ret[2].code = last.arg[2].ruleId
  /\ last.ret[1].range # last.ret[2].range

\* C16: lastResults is the argument of the most recent toDiagnostics or
\* setLastResults call (the empty list before any), getLastResults returns
\* it, the lint operations leave it alone, and a toDiagnostics call that
\* raised an error has stored its argument all the same.
C16_LastResults ==
  /\ lastResults = given
  /\ (last.op = "none") => lastResults = <<>>
  /\ (last.op = "getLastResults") => last.ret = given
  /\ (last.op \in {"toDiagnostics", "setLastResults"}) => lastResults = last.arg

\* A toDiagnostics call raised an error on an unknown rule id and its
\* argument is what the linter holds.
C16_Witness ==
  /\ last.op = "toDiagnostics" /\ last.threw
  /\ last.arg # <<>>
  /\ lastResults = last.arg

---------------------------------------------------------------------------
(* What the claim about the text rendering speaks of.                      *)

Buckets == {"errors", "warnings", "info"}
InBucket(b, r) == \E k \in 1..Len(out[b]) : out[b][k] = r

\* C15 (as claimed): the text rendering puts every result in exactly one of
\* the Errors, Warnings and Info groups, so the three counts add up to the
\* total it reports.
C15_Partition ==
  (out.mode = "text") =>
    /\ \A i \in 1..Len(out.results) :
         Cardinality({b \in Buckets : InBucket(b, out.results[i])}) = 1
    /\ Len(out.errors) + Len(out.warnings) + Len(out.info) = out.total

---------------------------------------------------------------------------
(* What the claim about the two CliSignalLinter classes speaks of.         *)

\* The outcome of operation op on arg with linter l: whether it threw, the
\* sequence returned and the rules invoked, in order.
OutcomeOf(l, op, c, arg) ==
  CASE op = "lintSignal"   -> CallLintSignal(l, c, arg)
    [] op = "lintCommand"  -> CallLintCommand(l, c, arg)
    [] op = "lintCommands" -> CallLintCommands(l, c, arg)
    [] op = "lintDocument" -> CallLintDocument(l, c, arg)

Logged(call) == [threw |-> call.threw, results |-> call.ret, invoked |-> call.invoked]

\* C17: every engine call the pass made, whichever of the two
\* CliSignalLinter classes it used, has the outcome (rules invoked in order,
\* sequence returned or exception) that the other class gives for the same
\* operation, registry configuration and argument.
C17_SameOutcome ==
  \A i \in 1..Len(calls) :
    LET arg == ArgOf(doc, calls[i].node) IN
    /\ OutcomeOf("derived", calls[i].op, cfg, arg)
         = OutcomeOf("standalone", calls[i].op, cfg, arg)
    /\ \A l \in Linters : Logged(calls[i]) = OutcomeOf(l, calls[i].op, cfg, arg)

\* A pass with the standalone class made all four kinds of call; one of
\* them invoked two rules and returned results, and the last one threw.
C17_Witness ==
  /\ linter = "standalone"
  /\ {calls[i].op : i \in 1..Len(calls)}
       = {"lintDocument", "lintCommands", "lintCommand", "lintSignal"}
  /\ \E i \in 1..Len(calls) :
       /\ ~calls[i].threw /\ Len(calls[i].invoked) >= 2 /\ Len(calls[i].ret) >= 2
       /\ Logged(calls[i]) = OutcomeOf("derived", calls[i].op, cfg, ArgOf(doc, calls[i].node))
  /\ calls[Len(calls)].threw

===========================================================================
